---- MODULE Spec2Model ----
(***************************************************************************)
(* A model of src/app.py: the climate proxy's fetcher (fetch_data), its    *)
(* window echo (fetch_params), the six classifiers, the distribution       *)
(* responder (end_response) and the HTTP handlers built on them.           *)
(*                                                                         *)
(* Every handler is one synchronous request-to-response computation, so    *)
(* each is one action.  The data provider is the variable `world`: what it *)
(* answers for each year and date.  Numeric values are integers counting   *)
(* hundredths (0.15 is 15, 30 is 3000, -999.00 is -99900).                 *)
(***************************************************************************)
EXTENDS Integers, Sequences, FiniteSets, TLC

VARIABLES world, call, result

vars == <<world, call, result>>

(***************************************************************************)
(* Bounds of the model.                                                    *)
(***************************************************************************)
NumYears == 2
MaxWindow == 5
MaxValue == 7100
MaxRecords == 3

Years == 2023 .. (2022 + NumYears)

(***************************************************************************)
(* The calendar, as datetime computes it.                                  *)
(***************************************************************************)
Date(y, m, d) == [y |-> y, m |-> m, d |-> d]

IsLeap(y) == (y % 4 = 0 /\ y % 100 # 0) \/ y % 400 = 0

DaysInMonth(y, m) ==
    IF m = 2 THEN (IF IsLeap(y) THEN 29 ELSE 28)
    ELSE IF m \in {4, 6, 9, 11} THEN 30 ELSE 31

\* datetime(y, m, d) and strptime raise ValueError exactly when this is false.
ValidDate(y, m, d) ==
    /\ y \in 1 .. 9999
    /\ m \in 1 .. 12
    /\ d \in 1 .. DaysInMonth(y, m)

NextDay(dt) ==
    IF dt.d < DaysInMonth(dt.y, dt.m) THEN Date(dt.y, dt.m, dt.d + 1)
    ELSE IF dt.m < 12 THEN Date(dt.y, dt.m + 1, 1)
    ELSE Date(dt.y + 1, 1, 1)

PrevDay(dt) ==
    IF dt.d > 1 THEN Date(dt.y, dt.m, dt.d - 1)
    ELSE IF dt.m > 1 THEN Date(dt.y, dt.m - 1, DaysInMonth(dt.y, dt.m - 1))
    ELSE Date(dt.y - 1, 12, 31)

\* dt + timedelta(days=n) and dt - timedelta(days=n)
RECURSIVE PlusDays(_, _)
PlusDays(dt, n) == IF n <= 0 THEN dt ELSE PlusDays(NextDay(dt), n - 1)

RECURSIVE MinusDays(_, _)
MinusDays(dt, n) == IF n <= 0 THEN dt ELSE MinusDays(PrevDay(dt), n - 1)

\* strftime('%Y%m%d'): the date as the number YYYYMMDD.
Strftime(dt) == dt.y * 10000 + dt.m * 100 + dt.d

\* The date a YYYYMMDD key names (valid or not).
KeyDate(k) == Date(k \div 10000, (k \div 100) % 100, k % 100)

\* pd.to_datetime(d, format='%Y%m%d') raises unless the key is a date.
KeyParses(k) == k > 0 /\ ValidDate(KeyDate(k).y, KeyDate(k).m, KeyDate(k).d)

(***************************************************************************)
(* The classifiers.  x counts hundredths.                                  *)
(***************************************************************************)
categorize_aod_le(x) ==
    IF x <= 15 THEN "Clean"
    ELSE IF 15 <= x /\ x < 40 THEN "Moderate"
    ELSE IF 40 <= x /\ x < 80 THEN "Heavily Polluted"
    ELSE "Extremely Polluted"

categorize_aod(x) ==
    IF x < 15 THEN "Clean"
    ELSE IF 15 <= x /\ x < 40 THEN "Moderate"
    ELSE IF 40 <= x /\ x < 80 THEN "Heavily Polluted"
    ELSE "Extremely Polluted"

categorize_cloud(x) ==
    IF x < 3000 THEN "Sunny"
    ELSE IF x > 7000 THEN "Cloudy"
    ELSE "Partly Cloudy"

\* The labels carry a degree sign in the source; it is left out here.
categorize_temp_lt(x) ==
    IF x <= -1000 THEN "Extremely Cold (<= -10C)"
    ELSE IF -1000 < x /\ x < 0 THEN "Very Cold (-10C to 0C)"
    ELSE IF 0 <= x /\ x <= 1000 THEN "Cold (0C to 10C)"
    ELSE IF 1000 < x /\ x <= 2000 THEN "Mild (10C to 20C)"
    ELSE IF 2000 < x /\ x <= 3500 THEN "Warm (20C to 35C)"
    ELSE IF 3500 < x /\ x <= 4500 THEN "Hot (35C to 45C)"
    ELSE "Extremely Hot (> 45C)"

categorize_temp(x) ==
    IF x <= -1000 THEN "Extremely Cold (<= -10C)"
    ELSE IF -1000 < x /\ x <= 0 THEN "Very Cold (-10C to 0C)"
    ELSE IF 0 < x /\ x <= 1000 THEN "Cold (0C to 10C)"
    ELSE IF 1000 < x /\ x <= 2000 THEN "Mild (10C to 20C)"
    ELSE IF 2000 < x /\ x <= 3500 THEN "Warm (20C to 35C)"
    ELSE IF 3500 < x /\ x <= 4500 THEN "Hot (35C to 45C)"
    ELSE "Extremely Hot (> 45C)"

categorize_snow(x) ==
    IF x = 0 THEN "No Snow"
    ELSE IF x < 100 THEN "Light Snow"
    ELSE IF x < 500 THEN "Moderate Snow"
    ELSE "Heavy Snow"

categorize_rainfall(x) ==
    IF x = 0 THEN "No Rain"
    ELSE IF x < 500 THEN "Light Rain"
    ELSE IF x < 2000 THEN "Moderate Rain"
    ELSE "Heavy Rain"

categorize_wind(x) ==
    IF x < 200 THEN "Calm"
    ELSE IF x < 500 THEN "Light Breeze"
    ELSE IF x < 1000 THEN "Moderate Breeze"
    ELSE "Strong Wind"

\* The parameter codes of the six _after_res routes, and the default
\* `parameters` of /api/timeseries, in its order.
AllParameters ==
    <<"AOD_55_ADJ", "CLOUD_AMT", "T2M", "SNODP", "PRECTOTCORR", "WS10M">>

Params == {AllParameters[i] : i \in 1 .. Len(AllParameters)}

\* The classifier each _after_res route hands to end_response.
Categorize(p, x) ==
    CASE p = "AOD_55_ADJ" -> categorize_aod(x)
      [] p = "CLOUD_AMT" -> categorize_cloud(x)
      [] p = "T2M" -> categorize_temp(x)
      [] p = "SNODP" -> categorize_snow(x)
      [] p = "PRECTOTCORR" -> categorize_rainfall(x)
      [] p = "WS10M" -> categorize_wind(x)

(***************************************************************************)
(* The data provider.  world.outcome[y] is what it does with the request   *)
(* for year y; world.serves the parameters its payload carries;            *)
(* world.val[p][c] the value of p on the days of class c, and world.gap[p] *)
(* the classes of days p's mapping leaves out.                             *)
(***************************************************************************)
Sentinel == -99900

TransportFailures == {"timeout", "transport", "status", "json"}

PayloadDefects == {"no_geometry", "arity", "bad_key0", "bad_key1", "shape"}

Outcomes == {"ok"} \cup TransportFailures \cup PayloadDefects

DayClasses == {0, 1}

DayClass(dt) == (dt.y + dt.d) % 2

\* A key that is no date: February 30th of the requested year.
BadKey(year) == year * 10000 + 230

\* The days from s to e, both included, in order (none when s is after e).
RECURSIVE DateRange(_, _)
DateRange(s, e) ==
    IF Strftime(s) > Strftime(e) THEN <<>>
    ELSE <<s>> \o DateRange(NextDay(s), e)

\* The (key, value) pairs of p's mapping over `days`, in order.
RECURSIVE Items(_, _, _)
Items(w, p, days) ==
    IF days = <<>> THEN <<>>
    ELSE (IF DayClass(Head(days)) \in w.gap[p] THEN <<>>
          ELSE <<[key |-> Strftime(Head(days)),
                  val |-> w.val[p][DayClass(Head(days))]]>>)
         \o Items(w, p, Tail(days))

\* The mapping with a key that is no date put after its first k items.
WithBadKey(items, k, year) ==
    LET n == IF k < Len(items) THEN k ELSE Len(items)
    IN  SubSeq(items, 1, n) \o <<[key |-> BadKey(year), val |-> 0]>>
        \o SubSeq(items, n + 1, Len(items))

Range(seq) == {seq[i] : i \in 1 .. Len(seq)}

\* What requests.get, raise_for_status and response.json() give for the URL
\* of one year.
Provider(w, year, lat, lon, parameters, start_range, end_range) ==
    LET o == w.outcome[year]
        days == DateRange(KeyDate(start_range), KeyDate(end_range))
        last == IF parameters = <<>> THEN "" ELSE parameters[Len(parameters)]
        mapping(p) ==
            LET items == Items(w, p, days)
            IN  [shape |-> IF o = "shape" /\ p = last THEN "list" ELSE "dict",
                 items |-> CASE o = "bad_key0" -> WithBadKey(items, 0, year)
                             [] o = "bad_key1" -> WithBadKey(items, 1, year)
                             [] OTHER -> items]
    IN  IF o \in TransportFailures THEN [kind |-> o]
        ELSE [kind |-> "data",
              keys |-> IF o = "no_geometry" THEN {"properties"}
                       ELSE {"geometry", "properties"},
              coordinates |-> IF o = "arity" THEN <<lon, lat>>
                              ELSE <<lon, lat, w.elevation>>,
              parameter |-> [p \in Range(parameters) \cap w.serves |-> mapping(p)]]

(***************************************************************************)
(* fetch_data                                                              *)
(***************************************************************************)
\* params.get(p, {}).get(d, -999.00)
Lookup(params, p, d) ==
    IF p \notin DOMAIN params THEN Sentinel
    ELSE LET hits == {i \in 1 .. Len(params[p].items) : params[p].items[i].key = d}
         IN  IF hits = {} THEN Sentinel
             ELSE params[p].items[CHOOSE i \in hits : TRUE].val

\* A faulty variant of Missing: the flag is overwritten by each parameter in turn,
\* so that only the last one decides.
MissingLastOnly(parameters, vals) ==
    vals[parameters[Len(parameters)]] = Sentinel

\* The `missing` flag after the loop over the parameters of one date.
Missing(parameters, vals) ==
    \E i \in 1 .. Len(parameters) : vals[parameters[i]] = Sentinel

\* The loop over the dates of one year's payload.  An exception (a key that
\* is no date, a mapping that is no dict) leaves the loop with the records
\* appended so far.
RECURSIVE ParseDates(_, _, _, _, _)
ParseDates(data, parameters, dates, i, all_records) ==
    IF i > Len(dates) THEN all_records
    ELSE LET d == dates[i]
             params == data.parameter
         IN  IF ~KeyParses(d) THEN all_records
             ELSE IF \E p \in Range(parameters) \cap DOMAIN params :
                        params[p].shape # "dict"
             THEN all_records
             ELSE LET vals == [p \in Range(parameters) |-> Lookup(params, p, d)]
                      record == [Longitude |-> data.coordinates[1],
                                 Latitude |-> data.coordinates[2],
                                 Elevation |-> data.coordinates[3],
                                 Date |-> KeyDate(d),
                                 vals |-> vals]
                  IN  ParseDates(data, parameters, dates, i + 1,
                                 IF Missing(parameters, vals) THEN all_records
                                 ELSE Append(all_records, record))

\* The try block that parses one year's payload; any exception keeps
\* all_records as it is at that point.
ParseYear(data, parameters, all_records) ==
    IF "geometry" \notin data.keys \/ Len(data.coordinates) # 3 THEN all_records
    ELSE IF parameters = <<>> THEN all_records
    ELSE IF parameters[1] \notin DOMAIN data.parameter THEN all_records
    ELSE IF data.parameter[parameters[1]].shape # "dict" THEN all_records
    ELSE LET items == data.parameter[parameters[1]].items
             dates == [i \in 1 .. Len(items) |-> items[i].key]
         IN  ParseDates(data, parameters, dates, 1, all_records)

\* (month_start, day_start) and (month_end, day_end) of the window.
Window(target_dt, window) ==
    LET date_start == IF window # 0 THEN MinusDays(target_dt, window) ELSE target_dt
        date_end == IF window # 0 THEN PlusDays(target_dt, window) ELSE target_dt
    IN  [month_start |-> date_start.m, day_start |-> date_start.d,
         month_end |-> date_end.m, day_end |-> date_end.d]

\* A faulty variant of RangeBuilt: only the start of the range is built inside the
\* try block.
RangeBuiltStartOnly(year, win) ==
    ValidDate(year, win.month_start, win.day_start)

\* Whether datetime(year, month_start, day_start) and datetime(year,
\* month_end, day_end) both build (no ValueError).
RangeBuilt(year, win) ==
    /\ ValidDate(year, win.month_start, win.day_start)
    /\ ValidDate(year, win.month_end, win.day_end)

\* A faulty variant of AfterFailure: the failure leaves the loop (break).
AfterFailureBreak(q, year) == q.end_year + 1

\* The year the loop goes on with after a request failed (continue).
AfterFailure(q, year) == year + 1

\* The loop over the years: acc holds all_records and the requests sent.
RECURSIVE FetchYears(_, _, _, _, _)
FetchYears(w, q, win, year, acc) ==
    IF year > q.end_year THEN acc
    ELSE IF ~RangeBuilt(year, win)
    THEN FetchYears(w, q, win, year + 1, acc)
    ELSE LET start_range == Strftime(Date(year, win.month_start, win.day_start))
             end_range == Strftime(Date(year, win.month_end, win.day_end))
             data == Provider(w, year, q.lat, q.lon, q.parameters,
                              start_range, end_range)
             sent == Append(acc.requests,
                            [year |-> year, start |-> start_range, end |-> end_range])
         IN  IF data.kind # "data"
             THEN FetchYears(w, q, win, AfterFailure(q, year),
                             [all_records |-> acc.all_records, requests |-> sent])
             ELSE FetchYears(w, q, win, year + 1,
                             [all_records |-> ParseYear(data, q.parameters, acc.all_records),
                              requests |-> sent])

\* A faulty variant of Returned: the frame is returned without the df.empty test.
ReturnedUnchecked(acc) ==
    [raised |-> "", df |-> acc.all_records, requests |-> acc.requests]

\* df = pd.DataFrame(all_records), raising when it is empty.
Returned(acc) ==
    IF acc.all_records = <<>>
    THEN [raised |-> "No valid data returned from NASA POWER API.",
          df |-> <<>>, requests |-> acc.requests]
    ELSE [raised |-> "", df |-> acc.all_records, requests |-> acc.requests]

fetch_data(w, q) ==
    IF ~ValidDate(q.target_date.y, q.target_date.m, q.target_date.d)
    THEN [raised |-> "Invalid date format. Expected YYYY-MM-DD",
          df |-> <<>>, requests |-> <<>>]
    ELSE Returned(FetchYears(w, q, Window(q.target_date, q.window), q.start_year,
                             [all_records |-> <<>>, requests |-> <<>>]))

fetch_params(q) ==
    IF ~ValidDate(q.target_date.y, q.target_date.m, q.target_date.d)
    THEN [raised |-> "Invalid date format. Expected YYYY-MM-DD"]
    ELSE LET win == Window(q.target_date, q.window)
         IN  [raised |-> "",
              start_year |-> q.start_year, end_year |-> q.end_year,
              month_start |-> win.month_start, day_start |-> win.day_start,
              month_end |-> win.month_end, day_end |-> win.day_end,
              parameters |-> q.parameters, lat |-> q.lat, lon |-> q.lon]

(***************************************************************************)
(* end_response and the HTTP handlers                                      *)
(***************************************************************************)
DefaultWindow == 5

\* A faulty variant of TimeseriesWindow: the call leaves `window` to its default.
TimeseriesWindowDefault == DefaultWindow

\* The window /api/timeseries passes to fetch_data.
TimeseriesWindow == 0

\* jsonify's rendering of a Timestamp: an HTTP date.
HttpDate(dt) == <<dt.d, dt.m, dt.y, "00:00:00 GMT">>

\* df.to_dict(orient='records'), as jsonify renders it.
ToRecords(df) ==
    [i \in 1 .. Len(df) |->
        [Longitude |-> df[i].Longitude, Latitude |-> df[i].Latitude,
         Elevation |-> df[i].Elevation, Date |-> HttpDate(df[i].Date),
         vals |-> df[i].vals]]

\* validate_request_params('lat', 'long', 'date')
MissingMessage(args) ==
    IF args.missing = {} THEN ""
    ELSE "Missing required query parameters"

api_timeseries(w, args) ==
    IF MissingMessage(args) # "" THEN [code |-> 400, error |-> MissingMessage(args)]
    ELSE LET df == fetch_data(w, [lat |-> args.lat, lon |-> args.lon,
                                  target_date |-> args.date,
                                  start_year |-> args.start_year,
                                  end_year |-> args.end_year,
                                  parameters |-> args.parameters,
                                  window |-> TimeseriesWindow])
         IN  IF df.raised # "" THEN [code |-> 400, error |-> df.raised]
             ELSE [code |-> 200, body |-> ToRecords(df.df)]

\* /api/aod, /api/cloud, ...: the window of the query, echoed.
api_param(p, args) ==
    IF MissingMessage(args) # "" THEN [code |-> 400, error |-> MissingMessage(args)]
    ELSE LET df == fetch_params([lat |-> args.lat, lon |-> args.lon,
                                 target_date |-> args.date,
                                 start_year |-> args.start_year,
                                 end_year |-> args.end_year,
                                 parameters |-> <<p>>,
                                 window |-> DefaultWindow])
         IN  IF df.raised # "" THEN [code |-> 400, error |-> df.raised]
             ELSE [code |-> 200, body |-> df]

\* Series.value_counts(): how often each label occurs.
RECURSIVE ValueCounts(_)
ValueCounts(labels) ==
    IF labels = <<>> THEN [l \in {} |-> 0]
    ELSE LET rest == ValueCounts(Tail(labels))
             seen == DOMAIN rest
         IN  [l \in seen \cup {Head(labels)} |->
                 (IF l \in seen THEN rest[l] ELSE 0)
                 + (IF l = Head(labels) THEN 1 ELSE 0)]

\* A faulty variant of Normalized: value_counts without normalize=True.
NotNormalized(count, total) == [num |-> count * 100, den |-> 1]

\* value_counts(normalize=True) * 100: the fraction count/total times 100,
\* kept as an exact fraction num/den.
Normalized(count, total) == [num |-> count * 100, den |-> total]

\* The columns of pd.DataFrame(df_json).
Columns(df_json) == UNION {DOMAIN df_json[i].vals : i \in 1 .. Len(df_json)}

\* json.loads of a JSON string: the value the text spells.
JsonLoads(str) == str.text

\* data is the JSON body of the POST: data.keys its keys, data.is_str
\* whether api_result is a JSON string rather than a list.
end_response(p, data) ==
    IF "api_result" \notin data.keys
    THEN [code |-> 400, error |-> "Missing 'api_result' in request body"]
    ELSE LET df == IF data.is_str THEN JsonLoads(data.api_result)
                   ELSE data.api_result
         IN  IF p \notin Columns(df) THEN [code |-> 400, error |-> p]
             ELSE LET Category == [i \in 1 .. Len(df) |-> Categorize(p, df[i].vals[p])]
                      counts == ValueCounts(Category)
                  IN  [code |-> 200,
                       body |-> [l \in DOMAIN counts |->
                                    Normalized(counts[l], Len(df))]]

(***************************************************************************)
(* The actions: one per handler, one request at a time.                    *)
(***************************************************************************)
Idle == [op |-> "idle"]

NoResult == [code |-> 0]

\* A classifier applied to one value.
Classify(p, x) ==
    /\ call = Idle
    /\ call' = [op |-> "categorize", param |-> p, x |-> x]
    /\ result' = [code |-> 0, label |-> Categorize(p, x)]
    /\ UNCHANGED world

\* POST /api/<p>_after_res with a body of the caller's own.
ApiAfterRes(p, data) ==
    /\ call = Idle
    /\ call' = [op |-> "after_res", param |-> p, data |-> data, from |-> <<>>]
    /\ result' = end_response(p, data)
    /\ UNCHANGED world

\* POST /api/<p>_after_res with the records /api/timeseries just returned.
ApiAfterResOfTimeseries(p) ==
    /\ call.op = "timeseries"
    /\ result.code = 200
    /\ call' = [op |-> "after_res", param |-> p,
                data |-> [keys |-> {"api_result"}, is_str |-> FALSE,
                          api_result |-> result.body],
                from |-> <<call.args>>]
    /\ result' = end_response(p, [keys |-> {"api_result"}, is_str |-> FALSE,
                                  api_result |-> result.body])
    /\ UNCHANGED world

\* GET /api/timeseries
ApiTimeseries(args) ==
    /\ call = Idle
    /\ call' = [op |-> "timeseries", args |-> args]
    /\ result' = api_timeseries(world, args)
    /\ UNCHANGED world

\* GET /api/aod, /api/cloud, /api/temp, /api/snow, /api/rain, /api/wind
ApiParam(p, args) ==
    /\ call = Idle
    /\ call' = [op |-> "param", param |-> p, args |-> args]
    /\ result' = api_param(p, args)
    /\ UNCHANGED world

\* fetch_data called with a query of its own.
FetchData(q) ==
    /\ call = Idle
    /\ call' = [op |-> "fetch_data", q |-> q]
    /\ result' = [code |-> 0] @@ fetch_data(world, q)
    /\ UNCHANGED world

\* The response is sent; nothing of the request is kept.
Done ==
    /\ call # Idle
    /\ call' = Idle
    /\ result' = NoResult
    /\ UNCHANGED world

(***************************************************************************)
(* The classifiers and the distribution responder on bounded inputs.       *)
(***************************************************************************)
\* A provider that answers every year, every parameter at one value.
QuietWorld ==
    [outcome |-> [y \in Years |-> "ok"],
     serves |-> Params,
     val |-> [p \in Params |-> [c \in DayClasses |-> 5000]],
     gap |-> [p \in Params |-> {}],
     elevation |-> 21600]

ClassifierInputs == (0 - MaxValue) .. MaxValue

BodyValues == {0, 15, 3000, 5000}

JsonRecord(col, v) ==
    [Longitude |-> 7721, Latitude |-> 2861, Elevation |-> 21600,
     Date |-> HttpDate(Date(2023, 6, 15)),
     vals |-> [c \in {col} |-> v]]

\* Up to MaxRecords records that all carry the same column, the route's
\* parameter or another one.
RecordLists(p) ==
    UNION {[1 .. n -> {JsonRecord(col, v) : v \in BodyValues}] :
             n \in 0 .. MaxRecords, col \in {p, "ALLSKY_KT"}}

\* The bodies posted: an empty object, or api_result as a list of records or
\* as the JSON string of one.
Bodies(p) ==
    {[keys |-> {}, is_str |-> FALSE]}
    \cup {[keys |-> {"api_result"}, is_str |-> FALSE, api_result |-> df] :
            df \in RecordLists(p)}
    \cup {[keys |-> {"api_result"}, is_str |-> TRUE, api_result |-> [text |-> df]] :
            df \in RecordLists(p)}

InitClassify ==
    /\ world = QuietWorld
    /\ call = Idle
    /\ result = NoResult

NextClassify ==
    \/ call = Idle /\ \E p \in Params, x \in ClassifierInputs : Classify(p, x)
    \/ call = Idle /\ \E p \in Params : \E data \in Bodies(p) : ApiAfterRes(p, data)
    \/ Done

SpecClassify == InitClassify /\ [][NextClassify]_vars

(***************************************************************************)
(* The threshold tables of the classifiers, as rows of intervals over      *)
(* hundredths.                                                             *)
(***************************************************************************)
Below(hi, closed, label) ==
    [kind |-> "below", lo |-> 0, lo_in |-> FALSE, hi |-> hi, hi_in |-> closed,
     label |-> label]

Between(lo, lo_in, hi, hi_in, label) ==
    [kind |-> "between", lo |-> lo, lo_in |-> lo_in, hi |-> hi, hi_in |-> hi_in,
     label |-> label]

Above(lo, closed, label) ==
    [kind |-> "above", lo |-> lo, lo_in |-> closed, hi |-> 0, hi_in |-> FALSE,
     label |-> label]

InRow(x, row) ==
    /\ row.kind = "below" \/ x > row.lo \/ (row.lo_in /\ x = row.lo)
    /\ row.kind = "above" \/ x < row.hi \/ (row.hi_in /\ x = row.hi)

Table(p) ==
    CASE p = "AOD_55_ADJ" ->
            {Below(15, FALSE, "Clean"),
             Between(15, TRUE, 40, FALSE, "Moderate"),
             Between(40, TRUE, 80, FALSE, "Heavily Polluted"),
             Above(80, TRUE, "Extremely Polluted")}
      [] p = "CLOUD_AMT" ->
            {Below(3000, FALSE, "Sunny"),
             Between(3000, TRUE, 7000, TRUE, "Partly Cloudy"),
             Above(7000, FALSE, "Cloudy")}
      [] p = "T2M" ->
            {Below(-1000, TRUE, "Extremely Cold (<= -10C)"),
             Between(-1000, FALSE, 0, TRUE, "Very Cold (-10C to 0C)"),
             Between(0, FALSE, 1000, TRUE, "Cold (0C to 10C)"),
             Between(1000, FALSE, 2000, TRUE, "Mild (10C to 20C)"),
             Between(2000, FALSE, 3500, TRUE, "Warm (20C to 35C)"),
             Between(3500, FALSE, 4500, TRUE, "Hot (35C to 45C)"),
             Above(4500, FALSE, "Extremely Hot (> 45C)")}
      [] p = "SNODP" ->
            {Between(0, TRUE, 0, TRUE, "No Snow"),
             Below(0, FALSE, "Light Snow"),
             Between(0, FALSE, 100, FALSE, "Light Snow"),
             Between(100, TRUE, 500, FALSE, "Moderate Snow"),
             Above(500, TRUE, "Heavy Snow")}
      [] p = "PRECTOTCORR" ->
            {Between(0, TRUE, 0, TRUE, "No Rain"),
             Below(0, FALSE, "Light Rain"),
             Between(0, FALSE, 500, FALSE, "Light Rain"),
             Between(500, TRUE, 2000, FALSE, "Moderate Rain"),
             Above(2000, TRUE, "Heavy Rain")}
      [] p = "WS10M" ->
            {Below(200, FALSE, "Calm"),
             Between(200, TRUE, 500, FALSE, "Light Breeze"),
             Between(500, TRUE, 1000, FALSE, "Moderate Breeze"),
             Above(1000, TRUE, "Strong Wind")}

\* The boundary values the claim names, with their labels.
NamedBoundaries ==
    {<<"AOD_55_ADJ", 15, "Moderate">>, <<"AOD_55_ADJ", 40, "Heavily Polluted">>,
     <<"AOD_55_ADJ", 80, "Extremely Polluted">>,
     <<"CLOUD_AMT", 3000, "Partly Cloudy">>, <<"CLOUD_AMT", 7000, "Partly Cloudy">>,
     <<"SNODP", 100, "Moderate Snow">>, <<"SNODP", 500, "Heavy Snow">>,
     <<"PRECTOTCORR", 500, "Moderate Rain">>, <<"PRECTOTCORR", 2000, "Heavy Rain">>,
     <<"WS10M", 200, "Light Breeze">>, <<"WS10M", 500, "Moderate Breeze">>,
     <<"WS10M", 1000, "Strong Wind">>}

\* C5: every classifier answers, for every input, the label of the one row
\* of its threshold table whose interval holds the input, and the boundary
\* values the claim names get the labels it names.
C5_ClassifierFollowsTable ==
    call.op = "categorize" =>
        /\ Cardinality({row \in Table(call.param) : InRow(call.x, row)}) = 1
        /\ \A row \in Table(call.param) :
              InRow(call.x, row) => result.label = row.label
        /\ \A b \in NamedBoundaries :
              (b[1] = call.param /\ b[2] = call.x) => result.label = b[3]

C5_Witness ==
    /\ call.op = "categorize"
    /\ call.param = "AOD_55_ADJ"
    /\ call.x = 15
    /\ result.label = "Moderate"

\* C6 as stated: a temperature of exactly 0 is Cold, not Very Cold.
C6_ZeroIsCold ==
    (call.op = "categorize" /\ call.param = "T2M" /\ call.x = 0) =>
        result.label = "Cold (0C to 10C)"

\* C6 amended: a temperature of exactly 0 is Very Cold (the row (-10, 0]),
\* and Cold starts above 0.
C6_ZeroIsVeryCold ==
    (call.op = "categorize" /\ call.param = "T2M") =>
        /\ call.x = 0 => result.label = "Very Cold (-10C to 0C)"
        /\ call.x = 1 => result.label = "Cold (0C to 10C)"

C6_Witness ==
    /\ call.op = "categorize"
    /\ call.param = "T2M"
    /\ call.x = 0
    /\ result.label = "Very Cold (-10C to 0C)"

\* The records of a posted body that classify to label l.
Bearing(p, df, l) == {i \in 1 .. Len(df) : Categorize(p, df[i].vals[p]) = l}

RECURSIVE SumNum(_, _)
SumNum(dist, labels) ==
    IF labels = {} THEN 0
    ELSE LET l == CHOOSE x \in labels : TRUE
         IN  dist[l].num + SumNum(dist, labels \ {l})

\* The record set a body carries, as a list or spelled in a string.
Posted(data) == IF data.is_str THEN data.api_result.text ELSE data.api_result

\* C7: for a non-empty posted record set whose records all carry the
\* parameter, the answer holds a label exactly when a record classifies to
\* it, gives it count/total x 100, and the values sum to 100.
C7_Distribution ==
    (/\ call.op = "after_res"
     /\ "api_result" \in call.data.keys
     /\ Posted(call.data) # <<>>
     /\ \A i \in 1 .. Len(Posted(call.data)) :
           call.param \in DOMAIN Posted(call.data)[i].vals)
    => LET df == Posted(call.data)
           p == call.param
           observed == {Categorize(p, df[i].vals[p]) : i \in 1 .. Len(df)}
       IN  /\ result.code = 200
           /\ DOMAIN result.body = observed
           /\ \A l \in observed :
                 /\ result.body[l].den = Len(df)
                 /\ result.body[l].num = 100 * Cardinality(Bearing(p, df, l))
           /\ \A l \in observed :
                 SumNum(result.body, observed) = 100 * result.body[l].den

C7_Witness ==
    /\ call.op = "after_res"
    /\ call.param = "AOD_55_ADJ"
    /\ result.code = 200
    /\ call.data.is_str
    /\ Len(Posted(call.data)) = 3
    /\ DOMAIN result.body = {"Clean", "Extremely Polluted"}
    /\ result.body["Clean"].num = 100

(***************************************************************************)
(* The fetcher on bounded queries and providers.                           *)
(***************************************************************************)
Query(date, start_year, end_year, parameters, window) ==
    [lat |-> 2861, lon |-> 7721, target_date |-> date,
     start_year |-> start_year, end_year |-> end_year,
     parameters |-> parameters, window |-> window]

\* request.args; the requests of the model always name start_year, end_year
\* and parameters (their defaults are the one of AllParameters and two years
\* outside the model's range).
Args(missing, date, start_year, end_year, parameters) ==
    [missing |-> missing, lat |-> 2861, lon |-> 7721, date |-> date,
     start_year |-> start_year, end_year |-> end_year, parameters |-> parameters]

\* The query fetch_data gets from a request's arguments.
QueryOf(args, parameters, window) ==
    Query(args.date, args.start_year, args.end_year, parameters, window)

\* Target dates: mid-year, a leap day, windows that reach February 29th from
\* either side, windows that cross New Year, and a string that is no date.
TargetDates ==
    {Date(2023, 6, 15), Date(2024, 2, 29), Date(2024, 3, 5), Date(2024, 2, 24),
     Date(2023, 1, 3), Date(2023, 12, 29), Date(2023, 2, 30)}

FewDates == {Date(2023, 6, 15), Date(2024, 2, 29), Date(2023, 2, 30)}

Windows == 0 .. MaxWindow

FewWindows == {0, 1, DefaultWindow, MaxWindow}

ParameterLists ==
    {<<"AOD_55_ADJ">>, <<"T2M">>, <<"AOD_55_ADJ", "T2M">>,
     <<"T2M", "AOD_55_ADJ">>, AllParameters}

\* A provider whose two varying parameters are AOD_55_ADJ and T2M.
World(outcome, serves, aod, t2m, aod_gap, t2m_gap) ==
    [outcome |-> outcome,
     serves |-> serves,
     val |-> [p \in Params |->
                IF p = "AOD_55_ADJ" THEN aod
                ELSE IF p = "T2M" THEN t2m
                ELSE [c \in DayClasses |-> 5000]],
     gap |-> [p \in Params |->
                IF p = "AOD_55_ADJ" THEN aod_gap
                ELSE IF p = "T2M" THEN t2m_gap
                ELSE {}],
     elevation |-> 21600]

\* Only the first year of the model can be answered with outcome o.
FirstYear(o) == [y \in Years |-> IF y = 2023 THEN o ELSE "ok"]

----------------------------------------------------------------------------
\* Windows: many target dates and windows, two providers.
WindowWorlds ==
    {QuietWorld,
     World(FirstYear("timeout"), Params,
           [c \in DayClasses |-> IF c = 0 THEN Sentinel ELSE 10],
           [c \in DayClasses |-> 2500], {}, {})}

InitWindow ==
    /\ world \in WindowWorlds
    /\ call = Idle
    /\ result = NoResult

NextWindow ==
    \/ call = Idle /\ \E date \in TargetDates, sy \in Years, ey \in Years,
                         window \in Windows :
                         FetchData(Query(date, sy, ey, <<"AOD_55_ADJ">>, window))
    \/ call = Idle /\ \E p \in Params, date \in TargetDates, sy \in Years,
                         ey \in Years, missing \in {{}, {"lat"}} :
                         ApiParam(p, Args(missing, date, sy, ey, <<>>))
    \/ Done

SpecWindow == InitWindow /\ [][NextWindow]_vars

----------------------------------------------------------------------------
\* Failures: every pattern of per-year outcomes.
FailureOutcomes == TransportFailures \cup {"ok", "bad_key1"}

FailureWorlds ==
    {World(outcome, Params, aod, [c \in DayClasses |-> 2500], {}, {}) :
        outcome \in [Years -> FailureOutcomes],
        aod \in {[c \in DayClasses |-> 10],
                 [c \in DayClasses |-> IF c = 0 THEN Sentinel ELSE 10],
                 [c \in DayClasses |-> Sentinel]}}

InitFail ==
    /\ world \in FailureWorlds
    /\ call = Idle
    /\ result = NoResult

NextFail ==
    \/ call = Idle /\ \E date \in FewDates, sy \in Years, ey \in Years,
                         window \in {0, DefaultWindow},
                         parameters \in {<<"AOD_55_ADJ">>, <<"T2M", "AOD_55_ADJ">>} :
                         FetchData(Query(date, sy, ey, parameters, window))
    \/ call = Idle /\ \E date \in FewDates, sy \in Years, ey \in Years,
                         missing \in {{}, {"lat", "date"}},
                         parameters \in {<<"AOD_55_ADJ">>, AllParameters} :
                         ApiTimeseries(Args(missing, date, sy, ey, parameters))
    \/ Done

SpecFail == InitFail /\ [][NextFail]_vars

----------------------------------------------------------------------------
\* Data: what the payloads hold, parameter by parameter and day by day.
DataWorlds ==
    {World(FirstYear(o), serves, aod, t2m, aod_gap, t2m_gap) :
        o \in {"ok", "bad_key1", "shape"},
        serves \in {Params, Params \ {"T2M"}},
        aod \in [DayClasses -> {Sentinel, 10, 50}],
        t2m \in {[c \in DayClasses |-> 2500],
                 [c \in DayClasses |-> IF c = 0 THEN Sentinel ELSE 2500]},
        aod_gap \in {{}, {1}},
        t2m_gap \in {{}, {0}}}

Init ==
    /\ world \in DataWorlds
    /\ call = Idle
    /\ result = NoResult

Next ==
    \/ call = Idle /\ \E sy \in Years, ey \in Years, window \in FewWindows,
                         parameters \in ParameterLists :
                         FetchData(Query(Date(2023, 6, 15), sy, ey, parameters, window))
    \/ call = Idle /\ \E sy \in Years, ey \in Years, parameters \in ParameterLists :
                         ApiTimeseries(Args({}, Date(2023, 6, 15), sy, ey, parameters))
    \/ \E p \in {"AOD_55_ADJ", "T2M", "WS10M"} : ApiAfterResOfTimeseries(p)
    \/ Done

Spec == Init /\ [][Next]_vars

(***************************************************************************)
(* What the claims speak of, read off the provider itself.                 *)
(***************************************************************************)
ValidTarget(q) == ValidDate(q.target_date.y, q.target_date.m, q.target_date.d)

\* The years of the range in which both ends of the window are dates.
CalendarValid(q, y) ==
    LET win == Window(q.target_date, q.window)
    IN  /\ win.day_start <= DaysInMonth(y, win.month_start)
        /\ win.day_end <= DaysInMonth(y, win.month_end)

\* The days the request for year y covers.
YearDays(q, y) ==
    LET win == Window(q.target_date, q.window)
    IN  DateRange(Date(y, win.month_start, win.day_start),
                  Date(y, win.month_end, win.day_end))

\* Parameter p has a value other than -999.00 on day d.
HasValue(w, p, d) ==
    /\ p \in w.serves
    /\ DayClass(d) \notin w.gap[p]
    /\ w.val[p][DayClass(d)] # Sentinel

Complete(w, q, d) == \A i \in 1 .. Len(q.parameters) : HasValue(w, q.parameters[i], d)

\* Day d is a key of the first requested parameter's mapping.
Listed(w, q, d) ==
    /\ q.parameters # <<>>
    /\ q.parameters[1] \in w.serves
    /\ DayClass(d) \notin w.gap[q.parameters[1]]

InFrame(df, d) == \E i \in 1 .. Len(df) : df[i].Date = d

NoDataMessage == "No valid data returned from NASA POWER API."

\* C1: in a year whose response parses, a date listed for the first
\* parameter has its record in the ResultSet exactly when every requested
\* parameter has a value other than -999.00 for it (absent counts as -999.00).
C1_RecordIffNoSentinel ==
    (call.op = "fetch_data" /\ ValidTarget(call.q)) =>
        \A y \in call.q.start_year .. call.q.end_year :
            (CalendarValid(call.q, y) /\ world.outcome[y] = "ok") =>
                \A d \in Range(YearDays(call.q, y)) :
                    Listed(world, call.q, d) =>
                        (InFrame(result.df, d) <=> Complete(world, call.q, d))

\* A date whose first parameter has a value and whose second has the
\* sentinel is dropped, while another date of the same call is kept.
C1_Witness ==
    /\ call.op = "fetch_data"
    /\ call.q.parameters = <<"T2M", "AOD_55_ADJ">>
    /\ result.df # <<>>
    /\ \E y \in call.q.start_year .. call.q.end_year :
          /\ world.outcome[y] = "ok"
          /\ \E d \in Range(YearDays(call.q, y)) :
                /\ Listed(world, call.q, d)
                /\ HasValue(world, "T2M", d)
                /\ "AOD_55_ADJ" \in world.serves
                /\ DayClass(d) \notin world.gap["AOD_55_ADJ"]
                /\ ~HasValue(world, "AOD_55_ADJ", d)
                /\ ~InFrame(result.df, d)

\* C2: whatever fails, every calendar-valid year of the range is requested
\* exactly once, in ascending order, and the complete records of every year
\* that was answered well are in the ResultSet.
C2_FailuresSkipOneYear ==
    (call.op = "fetch_data" /\ ValidTarget(call.q)) =>
        LET q == call.q
            valid == {y \in q.start_year .. q.end_year : CalendarValid(q, y)}
            sent == result.requests
        IN  /\ Len(sent) = Cardinality(valid)
            /\ \A i \in 1 .. Len(sent) : sent[i].year \in valid
            /\ \A i \in 1 .. Len(sent) : \A j \in 1 .. Len(sent) :
                  i < j => sent[i].year < sent[j].year
            /\ \A y \in valid :
                  world.outcome[y] = "ok" =>
                      \A d \in Range(YearDays(q, y)) :
                          (Listed(world, q, d) /\ Complete(world, q, d))
                              => InFrame(result.df, d)

\* The first year fails in transport, the second is requested all the same
\* and its records are returned.
C2_Witness ==
    /\ call.op = "fetch_data"
    /\ call.q.start_year = 2023
    /\ call.q.end_year = 2024
    /\ world.outcome[2023] \in TransportFailures
    /\ world.outcome[2024] = "ok"
    /\ Len(result.requests) = 2
    /\ result.raised = ""
    /\ \E i \in 1 .. Len(result.df) : result.df[i].Date.y = 2024

\* No year of the range can yield a record: it is skipped, it fails, its
\* payload breaks before the first record, or each of its days lacks a value.
NoYearYields(w, q) ==
    \A y \in q.start_year .. q.end_year :
        \/ ~CalendarValid(q, y)
        \/ w.outcome[y] \in TransportFailures
        \/ w.outcome[y] \in {"no_geometry", "arity", "shape", "bad_key0"}
        \/ \A d \in Range(YearDays(q, y)) : ~(Listed(w, q, d) /\ Complete(w, q, d))

\* C3: when no record is accepted, fetch_data raises "no data" and
\* /api/timeseries answers 400 with an error; fetch_data never returns an
\* empty ResultSet.
C3_NoDataIsAnError ==
    /\ call.op = "fetch_data" =>
          /\ result.raised = "" => result.df # <<>>
          /\ (ValidTarget(call.q) /\ NoYearYields(world, call.q))
                => result.raised = NoDataMessage
    /\ call.op = "timeseries" =>
          /\ result.code \in {200, 400}
          /\ result.code = 200 => result.body # <<>>
          /\ (/\ call.args.missing = {}
              /\ ValidTarget(QueryOf(call.args, call.args.parameters, 0))
              /\ NoYearYields(world, QueryOf(call.args, call.args.parameters, 0)))
                => (result.code = 400 /\ result.error = NoDataMessage)

\* Every year of a two-year range is asked and none yields a record.
C3_Witness ==
    /\ call.op = "timeseries"
    /\ call.args.missing = {}
    /\ call.args.start_year = 2023
    /\ call.args.end_year = 2024
    /\ world.outcome[2023] = "ok"
    /\ world.outcome[2024] = "status"
    /\ result.code = 400
    /\ result.error = NoDataMessage

\* C4: every request of a year carries a start and an end that are dates of
\* that year, and a year in which the window's start or end does not exist
\* gets no request and gives no record.
C4_RangeInYearOrSkipped ==
    (call.op = "fetch_data" /\ ValidTarget(call.q)) =>
        LET q == call.q
            sent == result.requests
        IN  /\ \A i \in 1 .. Len(sent) :
                  /\ sent[i].year \in q.start_year .. q.end_year
                  /\ KeyParses(sent[i].start)
                  /\ KeyParses(sent[i].end)
                  /\ sent[i].start \div 10000 = sent[i].year
                  /\ sent[i].end \div 10000 = sent[i].year
            /\ \A y \in q.start_year .. q.end_year :
                  ~CalendarValid(q, y) =>
                      /\ \A i \in 1 .. Len(sent) : sent[i].year # y
                      /\ \A i \in 1 .. Len(result.df) : result.df[i].Date.y # y

\* A window that ends on February 29th: 2023 is skipped, 2024 is requested.
C4_Witness ==
    /\ call.op = "fetch_data"
    /\ call.q.target_date = Date(2024, 2, 24)
    /\ call.q.window = 5
    /\ call.q.start_year = 2023
    /\ call.q.end_year = 2024
    /\ Len(result.requests) = 1
    /\ result.requests[1] = [year |-> 2024, start |-> 20240219, end |-> 20240229]

\* C9 as stated: a year whose payload fails to parse leaves no record in
\* the ResultSet.
C9_ParseFailureSkipsYear ==
    (call.op = "fetch_data" /\ ValidTarget(call.q)) =>
        \A y \in call.q.start_year .. call.q.end_year :
            (CalendarValid(call.q, y) /\ world.outcome[y] \in PayloadDefects) =>
                \A i \in 1 .. Len(result.df) : result.df[i].Date.y # y

\* C10 as stated: the range of every requested year holds the target's
\* month and day, and so does the window fetch_params echoes.
C10_WindowAroundTarget ==
    /\ (call.op = "fetch_data" /\ ValidTarget(call.q)) =>
          \A i \in 1 .. Len(result.requests) :
              LET r == result.requests[i]
                  t == r.year * 10000 + call.q.target_date.m * 100
                       + call.q.target_date.d
              IN  r.start <= t /\ t <= r.end
    /\ (call.op = "param" /\ result.code = 200) =>
          LET b == result.body
              t == call.args.date.m * 100 + call.args.date.d
          IN  /\ b.month_start * 100 + b.day_start <= t
              /\ t <= b.month_end * 100 + b.day_end

\* The distribution of a frame's records, label by label.
Distribution(df, p) ==
    LET label(i) == Categorize(p, df[i].vals[p])
    IN  [l \in {label(i) : i \in 1 .. Len(df)} |->
            [num |-> 100 * Cardinality({i \in 1 .. Len(df) : label(i) = l}),
             den |-> Len(df)]]

\* Two distributions with the same labels and, label by label, the same
\* percentage (fractions compared by value).
SameDistribution(a, b) ==
    /\ DOMAIN a = DOMAIN b
    /\ \A l \in DOMAIN a : a[l].num * b[l].den = b[l].num * a[l].den

\* C8 as stated: the records of /api/timeseries, posted to a parameter's
\* _after_res route, give the distribution of fetching that one parameter
\* with the default window of the per-parameter routes.
C8_RoundTripDefaultWindow ==
    (call.op = "after_res" /\ call.from # <<>>) =>
        LET args == call.from[1]
            direct == fetch_data(world, QueryOf(args, <<call.param>>, DefaultWindow))
        IN  (call.param \in Range(args.parameters) /\ direct.raised = "") =>
                /\ result.code = 200
                /\ SameDistribution(result.body, Distribution(direct.df, call.param))

\* C8 amended: the records of /api/timeseries asked for that one parameter
\* alone, posted to its _after_res route, give the distribution of fetching
\* that parameter with window 0.
C8_RoundTripSameWindow ==
    (call.op = "after_res" /\ call.from # <<>>) =>
        LET args == call.from[1]
            direct == fetch_data(world, QueryOf(args, <<call.param>>, 0))
        IN  args.parameters = <<call.param>> =>
                /\ direct.raised = ""
                /\ result.code = 200
                /\ SameDistribution(result.body, Distribution(direct.df, call.param))

\* A round trip over two years whose records fall into two categories.
C8_Witness ==
    /\ call.op = "after_res"
    /\ call.from # <<>>
    /\ call.param = "AOD_55_ADJ"
    /\ call.from[1].parameters = <<"AOD_55_ADJ">>
    /\ result.code = 200
    /\ DOMAIN result.body = {"Clean", "Heavily Polluted"}

====
